---- MODULE Spec2Model ----
(***************************************************************************)
(* Shop billing system: the inventory reconciliation done on receipt save  *)
(* and delete (utils/stockUtils, utils/receiptUtils, pages/NewReceipt) and *)
(* the login lockout tracking (pages/Login, contexts/AuthContext).         *)
(* Also the AuthProvider's user and shop profile, the asynchronous steps of *)
(* saving and deleting a receipt, and the ownership check of              *)
(* pages/ViewReceipt.                                                      *)
(*                                                                         *)
(* Quantities are whole numbers of the stock unit.  A handler is one       *)
(* action; a backend call that can fail is an input of the action.         *)
(* Writes to one document issued by one client land in issue order.        *)
(***************************************************************************)
EXTENDS Integers, Sequences, FiniteSets, TLC

VARIABLES
    stock,          \* collection 'stock': id -> document
    receipts,       \* collection 'receipts': id -> document and its state
    stockItems,     \* NewReceipt state: the stock list fetched on mount
    stockLoaded,    \* NewReceipt state
    savedReceiptId, \* NewReceipt state
    formError,      \* NewReceipt state 'error' (a message key, "" when none)
    last,           \* history: the last operation that reached the store
    shops,          \* collection 'shops': the account's document
    now,            \* wall clock, minutes
    session,        \* auth session: the signed-in uid or NoId
    lastLogin,      \* history: the last login submission and its outcome
    currentUser,    \* AuthProvider state: the signed-in uid or NoId (null)
    shopData,       \* AuthProvider state: the shop profile or NoData (null)
    authLoading,    \* AuthProvider state 'loading'
    fetches,        \* getShopData calls in flight, per uid
    merges,         \* updateShopData calls whose .then has not run yet
    profiles,       \* collection 'shops' as the AuthProvider reads it: uid -> document
    loading,        \* NewReceipt state 'loading'
    transactionId,  \* NewReceipt state 'transactionId'
    flights,        \* promise chains of handleSubmit that have not settled yet
    created,        \* receipt documents saveReceipt created, in order: their transactionId
    calls,          \* per browser tab: its updateStockQuantity call, last or in flight
    lastWriter,     \* the tab whose stock updates landed last, or NoId
    chains,         \* per browser tab: its failing login submission, step by step
    attempts,       \* history: wrong-password sign-ins made so far
    deletes,        \* per browser tab: its deleteReceipt call, last or in flight
    restores,       \* history: restoreStockQuantity calls of deleteReceipt that wrote stock
    viewer,         \* ViewReceipt: currentUser and id as rendered, and its state
    lookups         \* ViewReceipt: getReceiptById chains of fetchReceipt not settled yet

stockVars == <<stock, receipts, stockItems, stockLoaded, savedReceiptId, formError, last>>
loginVars == <<shops, now, session, lastLogin>>
authVars == <<currentUser, shopData, authLoading, fetches, merges, profiles>>
formVars == <<loading, transactionId, flights, created>>
tabVars == <<calls, lastWriter>>
raceVars == <<chains, attempts>>
delVars == <<deletes, restores>>
viewVars == <<viewer, lookups>>
outsideStock == <<viewVars, loginVars, authVars, formVars, tabVars, raceVars, delVars>>
outsideLogin == <<viewVars, stockVars, authVars, formVars, tabVars, raceVars, delVars>>
outsideAuth == <<viewVars, stockVars, loginVars, formVars, tabVars, raceVars, delVars>>
outsideForm == <<viewVars, receipts, last, loginVars, authVars, tabVars, raceVars, delVars>>
outsideTabs == <<viewVars, receipts, stockItems, stockLoaded, savedReceiptId, formError, last,
                 loginVars, authVars, formVars, raceVars, delVars>>
outsideRace == <<viewVars, stockVars, now, session, lastLogin, authVars, formVars, tabVars, delVars>>
outsideDel == <<viewVars, stockItems, stockLoaded, savedReceiptId, formError, last,
                loginVars, authVars, formVars, tabVars, raceVars>>
outsideView == <<stockVars, loginVars, authVars, formVars, tabVars, raceVars, delVars>>
vars == <<stockVars, loginVars, authVars, formVars, tabVars, raceVars, delVars, viewVars>>

----------------------------------------------------------------------------
(* Bounds *)

\* Largest stock quantity and largest quantity typed on a receipt line.
MaxQty == 2

----------------------------------------------------------------------------
(* Universe *)

\* The signed-in shop of the NewReceipt page (currentUser.uid).
CurrentUid == "shopA"
StockIds == {"s1", "s2", "s3"}
\* The order in which a query returns the documents.
StockOrder == <<"s1", "s2", "s3">>
ReceiptIds == {"r1"}
NoId == "none"
\* A quantityUnit that is missing (undefined) or empty: falsy in the code.
NoUnit == ""
Units == {"units", "kg"}

\* String.prototype.toLowerCase over the names of the model.
Lower(n) == IF n = "Apple" THEN "apple" ELSE n

Max(a, b) == IF a >= b THEN a ELSE b

\* Array.prototype.find: the index of the first element satisfying P, 0 when none.
FindIndex(list, P(_)) ==
    LET hits == {k \in 1..Len(list) : P(list[k])}
    IN IF hits = {} THEN 0 ELSE CHOOSE k \in hits : \A j \in hits : k <= j

MaxOf(S) == CHOOSE k \in S : \A j \in S : j <= k

----------------------------------------------------------------------------
(* utils/stockUtils *)

\* query(stock, where('shopId','==',shopId)) mapped to {id, ...data}.
QueryStock(st, shopId) ==
    LET ids == SelectSeq(StockOrder, LAMBDA i : st[i].shopId = shopId)
    IN [k \in 1..Len(ids) |->
          [id |-> ids[k], shopId |-> st[ids[k]].shopId, name |-> st[ids[k]].name,
           price |-> st[ids[k]].price, quantity |-> st[ids[k]].quantity,
           quantityUnit |-> st[ids[k]].quantityUnit]]

\* Variant: the catch block of getShopStock rethrows.
GetShopStockRethrows(st, shopId, queryFails) ==
    IF shopId = NoId THEN [rejected |-> FALSE, value |-> <<>>]
    ELSE [rejected |-> queryFails,
          value |-> IF queryFails THEN <<>> ELSE QueryStock(st, shopId)]

\* getShopStock: how the promise settles.  It resolves to [] when no shopId is
\* given (return []) and when getDocs throws (the catch block returns []).
GetShopStock(st, shopId, queryFails) ==
    IF shopId = NoId THEN [rejected |-> FALSE, value |-> <<>>]
    ELSE IF queryFails THEN [rejected |-> FALSE, value |-> <<>>]
    ELSE [rejected |-> FALSE, value |-> QueryStock(st, shopId)]

\* Variant: the names are compared ignoring case.
StockNameMatchIgnoringCase(stockName, lineName) == Lower(stockName) = Lower(lineName)

\* item.name === soldItem.name
StockNameMatch(stockName, lineName) == stockName = lineName

UnitsCompatibleAlways(lineUnit, stockUnit) == TRUE

\* !soldItem.quantityUnit || soldItem.quantityUnit === stockItem.quantityUnit
UnitsCompatible(lineUnit, stockUnit) == lineUnit = NoUnit \/ lineUnit = stockUnit

NewSaleQuantityUnclamped(q, d) == q - d

\* Math.max(0, stockItem.quantity - soldItem.quantity)
NewSaleQuantity(q, d) == Max(0, q - d)

\* stockItem.quantity + parseFloat(receiptItem.quantity)
NewRestoreQuantity(q, d) == q + d

\* The updateStockItem call one line of updateStockQuantity (sale = TRUE) or of
\* restoreStockQuantity (sale = FALSE) issues: <<>> when it resolves without one.
LineUpdate(list, line, k, sale) ==
    LET i == FindIndex(list, LAMBDA it : StockNameMatch(it.name, line.name))
    IN IF i # 0 /\ UnitsCompatible(line.quantityUnit, list[i].quantityUnit)
       THEN <<[line |-> k, id |-> list[i].id,
               quantity |-> IF sale THEN NewSaleQuantity(list[i].quantity, line.quantity)
                            ELSE NewRestoreQuantity(list[i].quantity, line.quantity)]>>
       ELSE <<>>

RECURSIVE LineUpdates(_, _, _, _)
LineUpdates(list, items, k, sale) ==
    IF k > Len(items) THEN <<>>
    ELSE LineUpdate(list, items[k], k, sale) \o LineUpdates(list, items, k + 1, sale)

\* items.map(...) of updateStockQuantity: the updates issued, in issue order, all
\* computed from the one list read at the start.
SaleUpdates(st, shopId, items) == LineUpdates(QueryStock(st, shopId), items, 1, TRUE)

\* items.map(...) of restoreStockQuantity.
RestoreUpdates(st, shopId, items) == LineUpdates(QueryStock(st, shopId), items, 1, FALSE)

\* Variant: no update is kept when one of them fails.
ApplyUpdatesAllOrNothing(st, updates, failed) ==
    [id \in StockIds |->
        LET landed == {k \in 1..Len(updates) : updates[k].id = id}
        IN IF landed = {} \/ failed # {} THEN st[id]
           ELSE [st[id] EXCEPT !.quantity = updates[MaxOf(landed)].quantity]]

\* updateStockItem for every issued update whose index is not in failed: the
\* document keeps every other field; of two updates of one document the later wins.
ApplyUpdates(st, updates, failed) ==
    [id \in StockIds |->
        LET landed == {k \in 1..Len(updates) : k \notin failed /\ updates[k].id = id}
        IN IF landed = {} THEN st[id]
           ELSE [st[id] EXCEPT !.quantity = updates[MaxOf(landed)].quantity]]

----------------------------------------------------------------------------
(* pages/NewReceipt *)

\* A price or quantity field left empty ('').
Empty == -1
CashierNames == {"", " ", "Ali"}

\* String.prototype.trim over the cashier names of the model.
Trim(n) == IF n = " " THEN "" ELSE n
NoPre == <<>>

\* stockItem.name.toLowerCase() === item.name.toLowerCase()
InventoryNameMatch(stockName, lineName) == Lower(stockName) = Lower(lineName)

\* The row handleSelectChange / handleItemChange build once a name is picked from
\* the Select and a price and a quantity are typed: the unit is copied from the
\* first stock item of the fetched list whose name matches ignoring case.  The
\* quantity typed is kept as its whole part and whether a half follows it
\* ('1.5' is quantity 1, half TRUE).
FormLine(list, name, price, qty) ==
    LET i == FindIndex(list, LAMBDA it : InventoryNameMatch(it.name, name))
    IN [name |-> name, price |-> price, quantity |-> qty, half |-> FALSE,
        quantityUnit |-> IF name # "" /\ i # 0 /\ list[i].quantityUnit # NoUnit
                         THEN list[i].quantityUnit ELSE "units"]

\* What a user types into the price and quantity fields of a row: a price with a
\* quantity from 1 to MaxQty, a zero price, or a zero quantity.
Typed == {<<1, q>> : q \in 1..MaxQty} \cup {<<0, 1>>, <<1, 0>>}

\* The quantities '0.5' and '1.5' typed on a row sold by the piece.  Stock
\* quantities are whole numbers in the model, so no fraction is typed on a kg row.
HalfLines(list, names) ==
    {[l EXCEPT !.half = TRUE] :
        l \in {r \in {FormLine(list, n, 1, q) : n \in names, q \in 0..1} :
                  r.quantityUnit # "kg"}}

\* The rows a user can build: the untouched row {name: '', price: '', quantity: '1'},
\* or a name picked from the Select, whose options are the names of the fetched
\* list once stock is loaded, with a typed price and quantity.
FormLines(loaded, list) ==
    LET names == IF loaded THEN {list[k].name : k \in 1..Len(list)} ELSE {}
    IN {FormLine(list, "", Empty, 1)}
       \cup {FormLine(list, n, t[1], t[2]) : n \in names, t \in Typed}
       \cup HalfLines(list, names)

\* The items state at a submission: one row, or two after addItem.
Carts(loaded, list) ==
    {<<l>> : l \in FormLines(loaded, list)}
    \cup {<<l1, l2>> : l1 \in FormLines(loaded, list), l2 \in FormLines(loaded, list)}

\* Variant: a row sold by the piece is not required to be a whole number.
LineErrorFractionsPass(line) ==
    IF line.name = "" \/ line.price = Empty \/ line.quantity = Empty
    THEN "itemDetailsRequired"
    ELSE IF line.price <= 0 THEN "invalidPrices"
    ELSE IF line.quantity <= 0 /\ ~line.half THEN "invalidQuantities"
    ELSE IF line.quantityUnit # "kg" /\ line.quantity < 1 /\ ~line.half
    THEN "invalidQuantities"
    ELSE ""

\* The per-row checks of handleSubmit: the error key, "" when the row passes.
\* quantityValue <= 0, then for a unit other than kg
\* quantityValue < 1 || !Number.isInteger(quantityValue).
LineError(line) ==
    IF line.name = "" \/ line.price = Empty \/ line.quantity = Empty
    THEN "itemDetailsRequired"
    ELSE IF line.price <= 0 THEN "invalidPrices"
    ELSE IF line.quantity <= 0 /\ ~line.half THEN "invalidQuantities"
    ELSE IF line.quantityUnit # "kg" /\ (line.quantity < 1 \/ line.half)
    THEN "invalidQuantities"
    ELSE ""

InsufficientQuantityNever(available, wanted) == FALSE

\* matchingStock.quantity < parseFloat(item.quantity)
InsufficientQuantity(available, wanted) == available < wanted

\* validateInventory: valid when stock is not loaded, or every row has a stock
\* item of the fetched list (first match ignoring case) holding enough quantity.
ValidateInventory(loaded, list, items) ==
    \/ ~loaded
    \/ \A k \in 1..Len(items) :
          LET i == FindIndex(list, LAMBDA it : InventoryNameMatch(it.name, items[k].name))
          IN i # 0 /\ ~InsufficientQuantity(list[i].quantity, items[k].quantity)

\* The error of the first invalid item validateInventory reports.
InventoryError(list, items) ==
    LET Found(l) == FindIndex(list, LAMBDA it : InventoryNameMatch(it.name, l.name))
        bad == FindIndex(items, LAMBDA l :
                   Found(l) = 0 \/ InsufficientQuantity(list[Found(l)].quantity, l.quantity))
    IN IF Found(items[bad]) = 0 THEN "itemNotInInventory" ELSE "insufficientQuantity"

\* The validation of handleSubmit in order: the error key, "" when it passes.
SubmitError(cashier, loaded, list, items) ==
    LET bad == FindIndex(items, LAMBDA l : LineError(l) # "")
    IN IF Trim(cashier) = "" THEN "cashierRequired"
       ELSE IF bad # 0 THEN LineError(items[bad])
       ELSE IF ~ValidateInventory(loaded, list, items)
       THEN "inventoryError:" \o InventoryError(list, items)
       ELSE ""

\* processedItems.map(item => ({name, quantity: parseFloat(item.quantity),
\* quantityUnit: item.quantityUnit || 'units'}))
SoldItems(items) ==
    [k \in 1..Len(items) |->
        [name |-> items[k].name, quantity |-> items[k].quantity,
         quantityUnit |-> IF items[k].quantityUnit = NoUnit THEN "units"
                          ELSE items[k].quantityUnit]]

FreeReceiptIds == {r \in ReceiptIds : receipts[r].state = "unused"}

\* The record kept of the last operation that reached the store.
Op(op, rid, items, pre, updates, failed, outcome) ==
    [op |-> op, rid |-> rid, items |-> items, pre |-> pre, updates |-> updates,
     failed |-> failed, outcome |-> outcome]

\* The effect that fetches the stock list after mount: .then sets the list and
\* stockLoaded, .catch only logs.
LoadStock ==
    /\ ~stockLoaded
    /\ \E queryFails \in BOOLEAN :
          LET r == GetShopStock(stock, CurrentUid, queryFails)
          IN IF r.rejected
             THEN UNCHANGED <<stockItems, stockLoaded>>
             ELSE /\ stockItems' = r.value
                  /\ stockLoaded' = TRUE
    /\ UNCHANGED <<stock, receipts, savedReceiptId, formError, last>>
    /\ UNCHANGED outsideStock

\* handleSubmit of NewReceipt, with saveReceipt and updateStockQuantity.  The
\* submit button is disabled while savedReceiptId is set.
HandleSubmit ==
    /\ savedReceiptId = NoId
    /\ FreeReceiptIds # {}
    /\ \E cashier \in CashierNames :
        IF Trim(cashier) = ""
        THEN /\ formError' = SubmitError(cashier, stockLoaded, stockItems, <<>>)
             /\ UNCHANGED <<stock, receipts, savedReceiptId, last>>
        ELSE \E items \in Carts(stockLoaded, stockItems) :
            LET err == SubmitError(cashier, stockLoaded, stockItems, items)
                rid == CHOOSE r \in FreeReceiptIds : TRUE
                updates == SaleUpdates(stock, CurrentUid, SoldItems(items))
            IN IF err # ""
               THEN /\ formError' = err
                    /\ UNCHANGED <<stock, receipts, savedReceiptId, last>>
               ELSE \E backend \in {"saveFails", "queryFails", "run"} :
                    IF backend = "saveFails"
                    THEN /\ formError' = "errorSavingReceipt"
                         /\ last' = Op("save", NoId, <<>>, NoPre, <<>>, {}, "saveFailed")
                         /\ UNCHANGED <<stock, receipts, savedReceiptId>>
                    ELSE \E failed \in SUBSET (1..Len(updates)) :
                         /\ backend = "queryFails" => failed = {}
                         /\ receipts' = [receipts EXCEPT ![rid] =
                                [state |-> "live", shopId |-> CurrentUid, items |-> items]]
                         /\ savedReceiptId' = rid
                         /\ stock' = IF backend = "queryFails" THEN stock
                                     ELSE ApplyUpdates(stock, updates, failed)
                         /\ formError' = IF backend = "queryFails" \/ failed # {}
                                         THEN "errorSavingReceipt" ELSE ""
                         /\ last' = Op("save", rid, items, stock,
                                       IF backend = "queryFails" THEN <<>> ELSE updates,
                                       failed,
                                       IF backend = "queryFails" \/ failed # {}
                                       THEN "stockFailed" ELSE "saved")
    /\ UNCHANGED <<stockItems, stockLoaded>>
    /\ UNCHANGED outsideStock

\* resetForm: offered once a receipt is saved.
ResetForm ==
    /\ savedReceiptId # NoId
    /\ savedReceiptId' = NoId
    /\ formError' = ""
    /\ UNCHANGED <<stock, receipts, stockItems, stockLoaded, last>>
    /\ UNCHANGED outsideStock

----------------------------------------------------------------------------
(* pages/NewReceipt, step by step: handleSubmit returns after calling
   saveReceipt, and the promise chain .then / .catch / .finally runs as the
   backend answers.  A flight is one such chain: the transactionId and rows it
   captured, how far it got, and the stock updates it issued. *)

\* The transaction ids generateTransactionId issues, in order.
TxnIds == <<"x1", "x2">>
\* The document ids addDoc gives the receipts it creates, in order.
NewReceiptIds == <<"r1", "r2", "r3">>

\* Variant: the submit button is disabled only once a receipt is saved.
SubmitDisabledOnceSaved(isLoading, saved) == saved # NoId

\* disabled={loading || savedReceiptId}
SubmitDisabled(isLoading, saved) == isLoading \/ saved # NoId

Flight(txn, cashierName, items, stage, updates) ==
    [txn |-> txn, cashierName |-> cashierName, items |-> items, stage |-> stage,
     updates |-> updates]

\* handleSubmit up to its return: the validation, then the call of saveReceipt.
SubmitStart ==
    /\ ~SubmitDisabled(loading, savedReceiptId)
    /\ \E cashier \in CashierNames, items \in Carts(stockLoaded, stockItems) :
          LET err == SubmitError(cashier, stockLoaded, stockItems, items)
          IN IF err # ""
             THEN /\ formError' = err
                  /\ loading' = FALSE
                  /\ UNCHANGED flights
             ELSE /\ formError' = ""
                  /\ loading' = TRUE
                  /\ flights' = flights \cup {Flight(transactionId, Trim(cashier), items,
                                                   "saving", <<>>)}
    /\ UNCHANGED <<stock, stockItems, stockLoaded, savedReceiptId, transactionId, created>>
    /\ UNCHANGED outsideForm

\* Variant: the chain of a rejected save leaves loading set.
AfterRejectionStillLoading(isLoading) == isLoading

\* .finally(() => setLoading(false))
AfterRejection(isLoading) == FALSE

\* saveReceipt settles: .then sets savedReceiptId and calls updateStockQuantity;
\* a rejection goes to .catch and .finally.
SaveReceiptSettles ==
    /\ \E f \in flights, ok \in BOOLEAN :
          /\ f.stage = "saving"
          /\ IF ok
             THEN /\ Len(created) < Len(NewReceiptIds)
                  /\ created' = Append(created, f.txn)
                  /\ savedReceiptId' = NewReceiptIds[Len(created) + 1]
                  /\ flights' = (flights \ {f})
                                 \cup {Flight(f.txn, f.cashierName, f.items, "reading", <<>>)}
                  /\ UNCHANGED <<formError, loading>>
             ELSE /\ formError' = "errorSavingReceipt"
                  /\ loading' = AfterRejection(loading)
                  /\ flights' = flights \ {f}
                  /\ UNCHANGED <<created, savedReceiptId>>
    /\ UNCHANGED <<stock, stockItems, stockLoaded, transactionId>>
    /\ UNCHANGED outsideForm

\* getDocs of updateStockQuantity settles: the updates are computed from the
\* list read and issued; a rejection goes to .catch and .finally.
StockReadSettles ==
    /\ \E f \in flights, ok \in BOOLEAN :
          /\ f.stage = "reading"
          /\ IF ok
             THEN /\ flights' = (flights \ {f})
                        \cup {Flight(f.txn, f.cashierName, f.items, "writing",
                                     SaleUpdates(stock, CurrentUid, SoldItems(f.items)))}
                  /\ UNCHANGED <<formError, loading>>
             ELSE /\ formError' = "errorSavingReceipt"
                  /\ loading' = AfterRejection(loading)
                  /\ flights' = flights \ {f}
    /\ UNCHANGED <<stock, stockItems, stockLoaded, savedReceiptId, transactionId, created>>
    /\ UNCHANGED outsideForm

\* Promise.all of updateStockQuantity settles: .catch when an update failed,
\* .finally.
StockWritesSettle ==
    /\ \E f \in flights :
          /\ f.stage = "writing"
          /\ \E failed \in SUBSET (1..Len(f.updates)) :
                /\ stock' = ApplyUpdates(stock, f.updates, failed)
                /\ formError' = IF failed # {} THEN "errorSavingReceipt" ELSE formError
          /\ flights' = flights \ {f}
    /\ loading' = FALSE
    /\ UNCHANGED <<stockItems, stockLoaded, savedReceiptId, transactionId, created>>
    /\ UNCHANGED outsideForm

\* resetForm, with the new transaction id it issues.
ResetFormNewId ==
    /\ savedReceiptId # NoId
    /\ \E k \in 1..(Len(TxnIds) - 1) :
          /\ transactionId = TxnIds[k]
          /\ transactionId' = TxnIds[k + 1]
    /\ savedReceiptId' = NoId
    /\ formError' = ""
    /\ UNCHANGED <<stock, stockItems, stockLoaded, loading, flights, created>>
    /\ UNCHANGED outsideForm

----------------------------------------------------------------------------
(* utils/stockUtils, step by step: updateStockQuantity called from the
   handleSubmit of two browser tabs of the same shop.  Each call reads the stock
   list, then issues its updates; the calls of the two tabs interleave. *)

Tabs == {"t1", "t2"}

\* The sold items handleSubmit passes for a receipt of one row that passed its
\* checks: a name of the shop's stock, its unit, a quantity from 1 to MaxQty.
SoldRows ==
    {SoldItems(<<l>>) : l \in {r \in FormLines(TRUE, QueryStock(stock, CurrentUid)) :
                                   LineError(r) = ""}}

Call(stage, items, read) == [stage |-> stage, items |-> items, read |-> read]

\* Variant: the updates are computed from the stock as it is when they are
\* written.
ListForUpdatesAtWrite(listRead, listNow) == listNow

\* const stockItems = querySnapshot.docs.map(...): the list read once at the
\* start of the call is the one every new quantity is computed from.
ListForUpdates(listRead, listNow) == listRead

\* The updateStockItem calls of a call that read listRead.
CallUpdates(c, listNow) == LineUpdates(ListForUpdates(c.read, listNow), c.items, 1, TRUE)

\* updateStockQuantity(shopId, items) is called: getDocs is in flight.
UpdateStockQuantityCalled ==
    /\ \E t \in Tabs, items \in SoldRows :
          /\ calls[t].stage \in {"idle", "done"}
          /\ calls' = [calls EXCEPT ![t] = Call("reading", items, <<>>)]
    /\ UNCHANGED <<stock, lastWriter>>
    /\ UNCHANGED outsideTabs

\* getDocs settles: the list is kept; a rejection ends the call.
UpdateStockQuantityRead ==
    /\ \E t \in Tabs, ok \in BOOLEAN :
          /\ calls[t].stage = "reading"
          /\ calls' = [calls EXCEPT ![t] =
                IF ok THEN Call("writing", calls[t].items, QueryStock(stock, CurrentUid))
                ELSE Call("idle", <<>>, <<>>)]
    /\ UNCHANGED <<stock, lastWriter>>
    /\ UNCHANGED outsideTabs

\* The updates computed from the list read land, or the call rejects with none
\* landed.
UpdateStockQuantityWritten ==
    /\ \E t \in Tabs, ok \in BOOLEAN :
          LET updates == CallUpdates(calls[t], QueryStock(stock, CurrentUid))
          IN /\ calls[t].stage = "writing"
             /\ IF ok
                THEN /\ stock' = ApplyUpdates(stock, updates, {})
                     /\ calls' = [calls EXCEPT ![t].stage = "done"]
                     /\ lastWriter' = IF updates = <<>> THEN lastWriter ELSE t
                ELSE /\ calls' = [calls EXCEPT ![t] = Call("idle", <<>>, <<>>)]
                     /\ UNCHANGED <<stock, lastWriter>>
    /\ UNCHANGED outsideTabs

----------------------------------------------------------------------------
(* utils/receiptUtils *)

\* The record of a delete: direct says that the save of the receipt, with every
\* stock update landed, was the previous operation to reach the store, and
\* savePre is then the stock before that save.
DeleteOp(rid, items, updates, failed, outcome) ==
    [op |-> "delete", rid |-> rid, items |-> items, pre |-> stock, updates |-> updates,
     failed |-> failed, outcome |-> outcome,
     direct |-> last.op = "save" /\ last.rid = rid /\ last.outcome = "saved",
     savePre |-> IF last.op = "save" /\ last.rid = rid /\ last.outcome = "saved"
                 THEN last.pre ELSE NoPre]

ReceiptAfterDeleteRolledBack(receipt, restored) ==
    IF restored THEN [state |-> "deleted", shopId |-> NoId, items |-> <<>>] ELSE receipt

\* await deleteDoc(receiptRef), before restoreStockQuantity is called: the
\* document is gone whatever the restoration does afterwards.
ReceiptAfterDelete(receipt, restored) ==
    [state |-> "deleted", shopId |-> NoId, items |-> <<>>]

\* deleteReceipt(receiptId): getReceiptById, deleteDoc, restoreStockQuantity.
DeleteReceipt ==
    /\ \E rid \in ReceiptIds :
        LET receipt == receipts[rid]
            updates == RestoreUpdates(stock, receipt.shopId, receipt.items)
        IN IF receipt.state # "live"
           THEN /\ last' = DeleteOp(rid, <<>>, <<>>, {}, "notFound")
                /\ UNCHANGED <<stock, receipts>>
           ELSE \E backend \in {"readFails", "deleteFails", "queryFails", "run"} :
                IF backend \in {"readFails", "deleteFails"}
                THEN /\ last' = DeleteOp(rid, receipt.items, <<>>, {},
                                         IF backend = "readFails" THEN "readFailed"
                                         ELSE "deleteFailed")
                     /\ UNCHANGED <<stock, receipts>>
                ELSE \E failed \in SUBSET (1..Len(updates)) :
                     /\ backend = "queryFails" => failed = {}
                     /\ receipts' = [receipts EXCEPT ![rid] =
                            ReceiptAfterDelete(receipt,
                                Len(receipt.items) = 0
                                \/ (backend = "run" /\ failed = {}))]
                     /\ stock' = IF Len(receipt.items) > 0 /\ backend = "run"
                                 THEN ApplyUpdates(stock, updates, failed) ELSE stock
                     /\ last' = DeleteOp(rid, receipt.items,
                                         IF backend = "queryFails" THEN <<>> ELSE updates,
                                         failed,
                                         IF Len(receipt.items) > 0
                                            /\ (backend = "queryFails" \/ failed # {})
                                         THEN "restoreFailed" ELSE "ok")
    /\ UNCHANGED <<stockItems, stockLoaded, savedReceiptId, formError>>
    /\ UNCHANGED outsideStock

\* A direct edit that lowers a stock item's quantity (stock written off in
\* another page or tab): updateStockItem(itemId, {quantity}).
UpdateStockItem ==
    /\ \E id \in StockIds, q \in 0..MaxQty :
          /\ stock[id].shopId = CurrentUid
          /\ q < stock[id].quantity
          /\ stock' = [stock EXCEPT ![id].quantity = q]
    /\ last' = Op("edit", NoId, <<>>, NoPre, <<>>, {}, "ok")
    /\ UNCHANGED <<receipts, stockItems, stockLoaded, savedReceiptId, formError>>
    /\ UNCHANGED outsideStock

----------------------------------------------------------------------------
(* utils/receiptUtils, step by step: deleteReceipt called for the one receipt
   from the receipt lists of two browser tabs of the same shop.  getReceiptById,
   deleteDoc, the getDocs of restoreStockQuantity and its updates are round trips
   of their own; the calls of the two tabs interleave. *)

\* The receipt a call holds before getReceiptById resolved.
NoReceipt == [state |-> "unused", shopId |-> NoId, items |-> <<>>]

Deletion(stage, receipt, read) == [stage |-> stage, receipt |-> receipt, read |-> read]

\* await deleteDoc(receiptRef): deleting a document that does not exist succeeds.
DeleteDocOk(state, ok) == ok

\* handleDeleteReceipt calls deleteReceipt(receiptToDelete.id): the receipt is
\* on the tab's list, fetched while it was live; getReceiptById is in flight.
DeleteReceiptCalled ==
    /\ \E t \in Tabs :
          /\ deletes[t].stage = "idle"
          /\ deletes' = [deletes EXCEPT ![t] = Deletion("getting", NoReceipt, <<>>)]
    /\ UNCHANGED <<stock, receipts, restores>>
    /\ UNCHANGED outsideDel

\* getReceiptById settles: it throws 'Receipt not found' when the document does
\* not exist, and the call ends in the catch of handleDeleteReceipt.
GetReceiptByIdSettles ==
    /\ \E t \in Tabs, rid \in ReceiptIds, ok \in BOOLEAN :
          /\ deletes[t].stage = "getting"
          /\ deletes' = [deletes EXCEPT ![t] =
                IF ok /\ receipts[rid].state = "live"
                THEN Deletion("deleting", receipts[rid], <<>>)
                ELSE Deletion("failed", NoReceipt, <<>>)]
    /\ UNCHANGED <<stock, receipts, restores>>
    /\ UNCHANGED outsideDel

\* deleteDoc settles: restoreStockQuantity is called when the receipt read has
\* items.
DeleteDocSettles ==
    /\ \E t \in Tabs, rid \in ReceiptIds, ok \in BOOLEAN :
          /\ deletes[t].stage = "deleting"
          /\ IF DeleteDocOk(receipts[rid].state, ok)
             THEN /\ receipts' = [receipts EXCEPT ![rid] =
                         ReceiptAfterDelete(receipts[rid], FALSE)]
                  /\ deletes' = [deletes EXCEPT ![t].stage =
                         IF Len(deletes[t].receipt.items) > 0 THEN "restoreReading"
                         ELSE "done"]
             ELSE /\ deletes' = [deletes EXCEPT ![t] = Deletion("failed", NoReceipt, <<>>)]
                  /\ UNCHANGED receipts
    /\ UNCHANGED <<stock, restores>>
    /\ UNCHANGED outsideDel

\* getDocs of restoreStockQuantity settles: the list is kept; a rejection ends
\* the call.
RestoreStockQuantityRead ==
    /\ \E t \in Tabs, ok \in BOOLEAN :
          /\ deletes[t].stage = "restoreReading"
          /\ deletes' = [deletes EXCEPT ![t] =
                IF ok THEN Deletion("restoreWriting", deletes[t].receipt,
                                    QueryStock(stock, deletes[t].receipt.shopId))
                ELSE Deletion("failed", NoReceipt, <<>>)]
    /\ UNCHANGED <<stock, receipts, restores>>
    /\ UNCHANGED outsideDel

\* Promise.all of restoreStockQuantity settles: the updates computed from the
\* list read land, except those that failed.
RestoreStockQuantityWritten ==
    /\ \E t \in Tabs :
          LET updates == LineUpdates(deletes[t].read, deletes[t].receipt.items, 1, FALSE)
          IN /\ deletes[t].stage = "restoreWriting"
             /\ \E failed \in SUBSET (1..Len(updates)) :
                   /\ stock' = ApplyUpdates(stock, updates, failed)
                   /\ restores' = IF failed = 1..Len(updates) THEN restores
                                  ELSE restores + 1
                   /\ deletes' = [deletes EXCEPT ![t] =
                         IF failed = {} THEN Deletion("done", deletes[t].receipt, <<>>)
                         ELSE Deletion("failed", NoReceipt, <<>>)]
    /\ UNCHANGED receipts
    /\ UNCHANGED outsideDel

\* The catch and finally of handleDeleteReceipt: the modal stays open with the
\* receipt, and the Delete button is enabled again.
DeleteRejected ==
    /\ \E t \in Tabs :
          /\ deletes[t].stage = "failed"
          /\ deletes' = [deletes EXCEPT ![t] = Deletion("idle", NoReceipt, <<>>)]
    /\ UNCHANGED <<stock, receipts, restores>>
    /\ UNCHANGED outsideDel

----------------------------------------------------------------------------
(* contexts/AuthContext and pages/Login: one account, uid "u1", registered with
   the e-mail "a@x.com".  The timestamps lastLoginAt, lastFailedLoginAt and
   lockedAt are written but never read: they are left out of the document. *)

\* Latest clock value, minutes.
MaxTime == 20
\* Minutes the clock advances in one step.
TickMinutes == 5
\* Largest failedLoginAttempts, and largest run of failed submissions, at which
\* a further submission is explored.
MaxAttempts == 6

\* if (failedAttempts >= 5) / if (currentAttempts + 1 >= 5)
LockThreshold == 5
\* lockDuration: 15
LockDuration == 15

Uid == "u1"
NoTime == -1
NoField == ""
Emails == {"a@x.com", "A@x.com", "b@x.com"}

\* String.prototype.toLowerCase over the e-mails of the model.
LowerEmail(e) == IF e = "A@x.com" THEN "a@x.com" ELSE e

\* signInWithEmailAndPassword: the auth service compares e-mails ignoring case.
SignIn(email, passwordOk, networkOk) ==
    IF ~networkOk THEN "auth/network-request-failed"
    ELSE IF LowerEmail(email) # "a@x.com" THEN "auth/user-not-found"
    ELSE IF passwordOk THEN "ok" ELSE "auth/wrong-password"

\* where('email', '==', emailLower), limit(1): is the account's document found.
FoundByEmail(doc, email) ==
    doc.exists /\ doc.email # NoField /\ doc.email = LowerEmail(email)

\* where('userEmail', '==', email): is the account's document found.
FoundByUserEmail(doc, email) == doc.exists /\ doc.userEmail = email

\* Variant: the lock still holds at the minute it expires.
LockActiveAtExpiry(doc, t) ==
    /\ doc.lockedUntil # NoTime
    /\ doc.lockDuration # 0
    /\ doc.lockedUntil + doc.lockDuration >= t

\* Variant: the lock check never finds an unexpired lock.
LockActiveNever(doc, t) == FALSE

\* userData.lockedUntil && userData.lockDuration && lockExpiryTime > new Date()
LockActive(doc, t) ==
    /\ doc.lockedUntil # NoTime
    /\ doc.lockDuration # 0
    /\ doc.lockedUntil + doc.lockDuration > t

\* Variant: the update after a successful sign-in keeps the counter.
ResetAttemptsKept(doc) == doc

\* updateDoc(userRef, {failedLoginAttempts: 0, lastLoginAt})
ResetAttempts(doc) == [doc EXCEPT !.failedLoginAttempts = 0]

\* AuthContext.login: <<the document afterwards, what the promise settles with>>.
\* "accountLocked" is the Error('Account locked ...') thrown without a code.
AuthLogin(doc, email, passwordOk, networkOk) ==
    LET r == SignIn(email, passwordOk, networkOk)
        n == doc.failedLoginAttempts + 1
    IN IF r = "ok"
       THEN <<IF doc.exists /\ doc.failedLoginAttempts # 0 THEN ResetAttempts(doc) ELSE doc,
              "ok">>
       ELSE IF r = "auth/wrong-password" /\ email # "" /\ FoundByUserEmail(doc, email)
       THEN IF n >= LockThreshold
            THEN <<[doc EXCEPT !.failedLoginAttempts = n, !.accountStatus = "locked"],
                   "accountLocked">>
            ELSE <<[doc EXCEPT !.failedLoginAttempts = n], r>>
       ELSE <<doc, r>>

\* The catch block of Login.handleSubmit for a rejection r of login():
\* <<the document afterwards, the error shown>>.
LoginFailure(doc, email, r, t) ==
    LET n == doc.failedLoginAttempts + 1
    IN IF r \in {"auth/wrong-password", "auth/user-not-found"}
       THEN IF FoundByEmail(doc, email)
            THEN IF n >= LockThreshold
                 THEN <<[doc EXCEPT !.failedLoginAttempts = n, !.lockedUntil = t,
                                    !.lockDuration = LockDuration],
                        "lockedFor15Minutes">>
                 ELSE <<[doc EXCEPT !.failedLoginAttempts = n], "attemptsRemaining">>
            ELSE <<doc, "invalidEmailOrPassword">>
       ELSE <<doc, "failedToSignIn">>

\* The try block of Login.handleSubmit after login() resolved:
\* <<the document afterwards, the error shown or "dashboard">>.
LoginSuccess(doc) ==
    IF doc.exists
    THEN <<ResetAttempts(doc),
           IF doc.status \in {"pending", "frozen", "rejected"} THEN doc.status
           ELSE "dashboard">>
    ELSE <<doc, "failedToSignIn">>

\* Login.handleSubmit: the record of the submission made at time t on document doc.
Submission(doc, email, passwordOk, networkOk, t, fails) ==
    LET auth == AuthLogin(doc, email, passwordOk, networkOk)
        done == IF auth[2] = "ok" THEN LoginSuccess(auth[1])
                ELSE LoginFailure(auth[1], email, auth[2], t)
        wrong == SignIn(email, passwordOk, networkOk) = "auth/wrong-password"
    IN IF FoundByEmail(doc, email) /\ LockActive(doc, t)
       THEN [email |-> email, passwordOk |-> passwordOk, at |-> t, pre |-> doc,
             post |-> doc,
             signIn |-> "none", outcome |-> "temporarilyLocked", fails |-> fails]
       ELSE [email |-> email, passwordOk |-> passwordOk, at |-> t, pre |-> doc,
             post |-> done[1],
             signIn |-> SignIn(email, passwordOk, networkOk), outcome |-> done[2],
             fails |-> IF auth[2] = "ok" THEN 0 ELSE IF wrong THEN fails + 1 ELSE fails]

\* One submission of the login form.
LoginSubmit ==
    /\ shops.failedLoginAttempts <= MaxAttempts
    /\ lastLogin.fails <= MaxAttempts
    /\ \E email \in Emails, passwordOk \in BOOLEAN, networkOk \in BOOLEAN :
          /\ (~networkOk \/ LowerEmail(email) # "a@x.com") => passwordOk
          /\ lastLogin' = Submission(shops, email, passwordOk, networkOk, now,
                                     lastLogin.fails)
    /\ shops' = lastLogin'.post
    /\ session' = IF lastLogin'.signIn = "ok" THEN Uid ELSE session
    /\ UNCHANGED now
    /\ UNCHANGED outsideLogin

\* logout: signOut(auth).
Logout ==
    /\ session # NoId
    /\ session' = NoId
    /\ UNCHANGED <<shops, now, lastLogin>>
    /\ UNCHANGED outsideLogin

\* Time passes.
Tick ==
    /\ now + TickMinutes <= MaxTime
    /\ now' = now + TickMinutes
    /\ UNCHANGED <<shops, session, lastLogin>>
    /\ UNCHANGED outsideLogin

----------------------------------------------------------------------------
(* pages/Login and contexts/AuthContext, step by step: submissions with a wrong
   password made from two browser tabs for the one account.  Each lookup and each
   updateDoc is a round trip of its own; the chains of the two tabs interleave. *)

Chain(stage, email, n) == [stage |-> stage, email |-> email, n |-> n]

\* Variant: the counter is incremented in the store (an atomic increment).
CounterWrittenAtomic(read, current) == current + 1

\* failedLoginAttempts: currentAttempts + 1 / (userData.failedLoginAttempts || 0) + 1:
\* the value written is computed from the value the lookup read.
CounterWritten(read, current) == read + 1

\* Login.handleSubmit up to login(): the lock check, then signInWithEmailAndPassword
\* is called and will reject with auth/wrong-password.
FailingSubmitStart ==
    /\ attempts < MaxAttempts
    /\ \E t \in Tabs, email \in {"a@x.com", "A@x.com"} :
          /\ chains[t].stage = "idle"
          /\ ~(FoundByEmail(shops, email) /\ LockActive(shops, now))
          /\ chains' = [chains EXCEPT ![t] = Chain("signIn", email, 0)]
    /\ attempts' = attempts + 1
    /\ UNCHANGED shops
    /\ UNCHANGED outsideRace

\* The catch of AuthContext.login: getDocs(where('userEmail', '==', email)).
AuthLookup ==
    /\ \E t \in Tabs :
          /\ chains[t].stage = "signIn"
          /\ chains' = [chains EXCEPT ![t] =
                IF FoundByUserEmail(shops, chains[t].email)
                THEN Chain("authWrite", chains[t].email, shops.failedLoginAttempts)
                ELSE Chain("rethrown", chains[t].email, 0)]
    /\ UNCHANGED <<shops, attempts>>
    /\ UNCHANGED outsideRace

\* The updateDoc calls of AuthContext.login: the counter, then accountStatus
\* 'locked' and the Error without a code when the threshold is reached.
AuthWrite ==
    /\ \E t \in Tabs :
          LET n == CounterWritten(chains[t].n, shops.failedLoginAttempts)
          IN /\ chains[t].stage = "authWrite"
             /\ shops' = [shops EXCEPT !.failedLoginAttempts = n,
                                        !.accountStatus = IF chains[t].n + 1 >= LockThreshold
                                                          THEN "locked" ELSE @]
             /\ chains' = [chains EXCEPT ![t] =
                   IF chains[t].n + 1 >= LockThreshold
                   THEN Chain("idle", "", 0)
                   ELSE Chain("rethrown", chains[t].email, 0)]
    /\ UNCHANGED attempts
    /\ UNCHANGED outsideRace

\* The catch of Login.handleSubmit: getDocs(where('email', '==', emailLower)).
PageLookup ==
    /\ \E t \in Tabs :
          /\ chains[t].stage = "rethrown"
          /\ chains' = [chains EXCEPT ![t] =
                IF FoundByEmail(shops, chains[t].email)
                THEN Chain("pageWrite", chains[t].email, shops.failedLoginAttempts)
                ELSE Chain("idle", "", 0)]
    /\ UNCHANGED <<shops, attempts>>
    /\ UNCHANGED outsideRace

\* The updateDoc of Login.handleSubmit: the counter, with lockedUntil and
\* lockDuration when the threshold is reached.
PageWrite ==
    /\ \E t \in Tabs :
          LET n == CounterWritten(chains[t].n, shops.failedLoginAttempts)
          IN /\ chains[t].stage = "pageWrite"
             /\ shops' = IF chains[t].n + 1 >= LockThreshold
                          THEN [shops EXCEPT !.failedLoginAttempts = n,
                                             !.lockedUntil = now,
                                             !.lockDuration = LockDuration]
                          ELSE [shops EXCEPT !.failedLoginAttempts = n]
             /\ chains' = [chains EXCEPT ![t] = Chain("idle", "", 0)]
    /\ UNCHANGED attempts
    /\ UNCHANGED outsideRace

----------------------------------------------------------------------------
(* contexts/AuthContext: the AuthProvider's currentUser and shopData.  A shop
   profile is kept as the uid whose document it came from and the version of
   that document. *)

\* Most getShopData calls in flight for one uid.
MaxFetches == 2
\* Most writes updateShopData makes to one shop document.
MaxVersion == 1

Users == {"u1", "u2"}
\* useState(null) of shopData.
NoData == [owner |-> NoId, version |-> 0]

\* getShopData(userId).then: setShopData(data) when the document exists; the
\* state is left alone when it does not (return null) or the read rejects.
FetchedShopData(data, uid, doc, ok) ==
    IF ok /\ doc.exists THEN [owner |-> uid, version |-> doc.version] ELSE data

\* setShopData(prevData => ({...prevData, ...updatedData})): the fields written
\* by uid laid over the previous state, which may be null.
MergedShopData(data, m) ==
    [owner |-> IF data = NoData THEN m.uid ELSE data.owner, version |-> m.version]

\* The onAuthStateChanged listener: called once with the initial user and then
\* on every sign-in, sign-out and change of user.
AuthStateChanged ==
    /\ \E user \in Users \cup {NoId} :
          /\ user # currentUser \/ authLoading
          /\ currentUser' = user
          /\ IF user # NoId
             THEN /\ fetches[user] < MaxFetches
                  /\ fetches' = [fetches EXCEPT ![user] = @ + 1]
                  /\ UNCHANGED <<shopData, authLoading>>
             ELSE /\ shopData' = NoData
                  /\ authLoading' = FALSE
                  /\ UNCHANGED fetches
    /\ UNCHANGED <<merges, profiles>>
    /\ UNCHANGED outsideAuth

\* A getShopData call started by the listener settles: .then, .finally.
GetShopDataSettles ==
    /\ \E uid \in Users, ok \in BOOLEAN :
          /\ fetches[uid] > 0
          /\ fetches' = [fetches EXCEPT ![uid] = @ - 1]
          /\ shopData' = FetchedShopData(shopData, uid, profiles[uid], ok)
    /\ authLoading' = FALSE
    /\ UNCHANGED <<currentUser, merges, profiles>>
    /\ UNCHANGED outsideAuth

\* updateShopData(updatedData) up to the write: updateDoc on the current user's
\* document, which rejects when the document does not exist.
UpdateShopData ==
    /\ currentUser # NoId
    /\ ~authLoading
    /\ profiles[currentUser].exists
    /\ profiles[currentUser].version < MaxVersion
    /\ profiles' = [profiles EXCEPT ![currentUser].version = @ + 1]
    /\ merges' = merges \cup {[uid |-> currentUser,
                                version |-> profiles[currentUser].version + 1]}
    /\ UNCHANGED <<currentUser, shopData, authLoading, fetches>>
    /\ UNCHANGED outsideAuth

\* The .then of updateShopData: the local state takes the written fields.
UpdateShopDataThen ==
    /\ \E m \in merges :
          /\ shopData' = MergedShopData(shopData, m)
          /\ merges' = merges \ {m}
    /\ UNCHANGED <<currentUser, authLoading, fetches, profiles>>
    /\ UNCHANGED outsideAuth

----------------------------------------------------------------------------
(* pages/ViewReceipt: the page of route /receipt/:id, rendered for a signed-in
   user.  The effect of fetchReceipt runs after mount and whenever id or
   currentUser changes; each run starts a getReceiptById chain whose callbacks
   hold the currentUser of that run. *)

\* The receipts of the store by id: v1 belongs to u1, v2 to u2, v3 does not exist.
ViewIds == {"v1", "v2", "v3"}
ShopIdOf(id) == IF id = "v1" THEN "u1" ELSE IF id = "v2" THEN "u2" ELSE NoId

Viewer(user, id, receipt, isLoading, error) ==
    [user |-> user, id |-> id, receipt |-> receipt, loading |-> isLoading, error |-> error]

\* receiptData.shopId !== currentUser.uid throws; otherwise setReceipt.
Permitted(shopId, uid) == shopId = uid

\* The page is rendered with a user or an id it was not rendered with before (the
\* mount, a navigation to another receipt, another account signing in): the
\* effect runs fetchReceipt, which calls getReceiptById when both are set.
FetchReceipt ==
    /\ \E user \in Users, id \in ViewIds :
          /\ user # viewer.user \/ id # viewer.id
          /\ [uid |-> user, id |-> id] \notin lookups
          /\ viewer' = [viewer EXCEPT !.user = user, !.id = id]
          /\ lookups' = lookups \cup {[uid |-> user, id |-> id]}
    /\ UNCHANGED outsideView

\* getReceiptById settles: .then (the ownership check, setReceipt), .catch
\* (setError), .finally (setLoading(false)).
GetReceiptByIdThen ==
    /\ \E l \in lookups, ok \in BOOLEAN :
          /\ lookups' = lookups \ {l}
          /\ viewer' =
                IF ~ok THEN [viewer EXCEPT !.error = "fetchFailed", !.loading = FALSE]
                ELSE IF ShopIdOf(l.id) = NoId
                THEN [viewer EXCEPT !.error = "notFound", !.loading = FALSE]
                ELSE IF ~Permitted(ShopIdOf(l.id), l.uid)
                THEN [viewer EXCEPT !.error = "noPermission", !.loading = FALSE]
                ELSE [viewer EXCEPT !.receipt = l.id, !.loading = FALSE]
    /\ UNCHANGED outsideView

----------------------------------------------------------------------------
(* State after construction *)

\* The stock collection holds two items of the signed-in shop whose names differ
\* only in case and one item of another shop; s1 is tracked in the unit u1.
InitStock(u1) ==
    /\ stock = [id \in StockIds |->
          IF id = "s1" THEN [shopId |-> "shopA", name |-> "Apple", price |-> 1,
                             quantity |-> MaxQty, quantityUnit |-> u1]
          ELSE IF id = "s2" THEN [shopId |-> "shopA", name |-> "apple", price |-> 1,
                                  quantity |-> MaxQty, quantityUnit |-> "units"]
          ELSE [shopId |-> "shopB", name |-> "Apple", price |-> 1,
                quantity |-> MaxQty, quantityUnit |-> "units"]]
    /\ receipts = [r \in ReceiptIds |-> [state |-> "unused", shopId |-> NoId, items |-> <<>>]]
    /\ stockItems = <<>>
    /\ stockLoaded = FALSE
    /\ savedReceiptId = NoId
    /\ formError = ""
    /\ last = Op("init", NoId, <<>>, NoPre, <<>>, {}, "ok")

\* The account's document as registerShop leaves it (userEmail, accountStatus
\* 'active'), with the e-mail field and the approval status of its shop details.
InitLogin(exists, email, status) ==
    /\ shops = [exists |-> exists, email |-> email, userEmail |-> "a@x.com",
                failedLoginAttempts |-> 0, lockedUntil |-> NoTime,
                lockDuration |-> 0, accountStatus |-> "active", status |-> status]
    /\ lastLogin = [email |-> "", passwordOk |-> FALSE, at |-> 0, pre |-> shops,
                    post |-> shops,
                    signIn |-> "none", outcome |-> "none", fails |-> 0]
    /\ now = 0
    /\ session = NoId

\* The AuthProvider before the first onAuthStateChanged call; the shop document of
\* u2 exists or not (a Google account signs in before its document is written).
InitAuth(u2Exists) ==
    /\ currentUser = NoId
    /\ shopData = NoData
    /\ authLoading = TRUE
    /\ fetches = [u \in Users |-> 0]
    /\ merges = {}
    /\ profiles = [u \in Users |-> [exists |-> (u = "u1" \/ u2Exists), version |-> 0]]

\* useState(false) of loading, useState(generateTransactionId()).
InitForm ==
    /\ loading = FALSE
    /\ transactionId = TxnIds[1]
    /\ flights = {}
    /\ created = <<>>
    /\ calls = [t \in Tabs |-> Call("idle", <<>>, <<>>)]
    /\ lastWriter = NoId
    /\ chains = [t \in Tabs |-> Chain("idle", "", 0)]
    /\ attempts = 0
    /\ deletes = [t \in Tabs |-> Deletion("idle", NoReceipt, <<>>)]
    /\ restores = 0
    /\ viewer = Viewer(NoId, NoId, NoId, TRUE, "")
    /\ lookups = {}

Init ==
    /\ \E u1 \in Units : InitStock(u1)
    /\ InitLogin(TRUE, "a@x.com", "approved")
    /\ InitAuth(TRUE)
    /\ InitForm

Next ==
    \/ LoadStock
    \/ HandleSubmit
    \/ ResetForm
    \/ DeleteReceipt
    \/ UpdateStockItem

Spec == Init /\ [][Next]_vars

NextLogin ==
    \/ LoginSubmit
    \/ Logout
    \/ Tick

InitForLogin ==
    /\ InitStock("units")
    /\ \E exists \in BOOLEAN, email \in {NoField, "a@x.com"},
          status \in {"approved", "pending"} :
          /\ ~exists => (email = NoField /\ status = "approved")
          /\ InitLogin(exists, email, status)
    /\ InitAuth(TRUE)
    /\ InitForm

LoginSpec == InitForLogin /\ [][NextLogin]_vars

NextAuth ==
    \/ AuthStateChanged
    \/ GetShopDataSettles
    \/ UpdateShopData
    \/ UpdateShopDataThen

InitForAuth ==
    /\ InitStock("units")
    /\ InitLogin(TRUE, "a@x.com", "approved")
    /\ \E u2Exists \in BOOLEAN : InitAuth(u2Exists)
    /\ InitForm

AuthSpec == InitForAuth /\ [][NextAuth]_vars

NextForm ==
    \/ LoadStock
    \/ SubmitStart
    \/ SaveReceiptSettles
    \/ StockReadSettles
    \/ StockWritesSettle
    \/ ResetFormNewId

FormSpec == Init /\ [][NextForm]_vars

NextTabs ==
    \/ UpdateStockQuantityCalled
    \/ UpdateStockQuantityRead
    \/ UpdateStockQuantityWritten

TabsSpec == Init /\ [][NextTabs]_vars

NextRace ==
    \/ FailingSubmitStart
    \/ AuthLookup
    \/ AuthWrite
    \/ PageLookup
    \/ PageWrite

InitForRace ==
    /\ InitStock("units")
    /\ \E email \in {NoField, "a@x.com"} : InitLogin(TRUE, email, "approved")
    /\ InitAuth(TRUE)
    /\ InitForm

RaceSpec == InitForRace /\ [][NextRace]_vars

NextDel ==
    \/ DeleteReceiptCalled
    \/ GetReceiptByIdSettles
    \/ DeleteDocSettles
    \/ RestoreStockQuantityRead
    \/ RestoreStockQuantityWritten
    \/ DeleteRejected

\* The store once NewReceipt saved receipt r1 of the signed-in shop: one row of q
\* Apple, sold from s1, whose quantity the save lowered from MaxQty.
InitSaved(u1, q) ==
    /\ stock = [id \in StockIds |->
          IF id = "s1" THEN [shopId |-> "shopA", name |-> "Apple", price |-> 1,
                             quantity |-> NewSaleQuantity(MaxQty, q), quantityUnit |-> u1]
          ELSE IF id = "s2" THEN [shopId |-> "shopA", name |-> "apple", price |-> 1,
                                  quantity |-> MaxQty, quantityUnit |-> "units"]
          ELSE [shopId |-> "shopB", name |-> "Apple", price |-> 1,
                quantity |-> MaxQty, quantityUnit |-> "units"]]
    /\ receipts = [r \in ReceiptIds |->
          [state |-> "live", shopId |-> CurrentUid,
           items |-> <<[name |-> "Apple", price |-> 1, quantity |-> q, half |-> FALSE,
                        quantityUnit |-> u1]>>]]
    /\ stockItems = <<>>
    /\ stockLoaded = FALSE
    /\ savedReceiptId = NoId
    /\ formError = ""
    /\ last = Op("init", NoId, <<>>, NoPre, <<>>, {}, "ok")

InitForDel ==
    /\ \E u1 \in Units, q \in 1..MaxQty : InitSaved(u1, q)
    /\ InitLogin(TRUE, "a@x.com", "approved")
    /\ InitAuth(TRUE)
    /\ InitForm

DelSpec == InitForDel /\ [][NextDel]_vars

NextView ==
    \/ FetchReceipt
    \/ GetReceiptByIdThen

ViewSpec == Init /\ [][NextView]_vars

----------------------------------------------------------------------------
(* Properties of the inventory reconciliation *)

\* The updates of the last save or delete that landed on stock item id.
LandedOn(id) ==
    {j \in 1..Len(last.updates) : j \notin last.failed /\ last.updates[j].id = id}

\* The stock list the last save or delete read.
ListRead == QueryStock(last.pre, CurrentUid)

\* The position in the list read of the first item named exactly as the line.
ExactMatch(line) == FindIndex(ListRead, LAMBDA it : it.name = line.name)

\* The position in the list read of the first item named as the line, ignoring case.
CaseMatch(line) == FindIndex(ListRead, LAMBDA it : Lower(it.name) = Lower(line.name))

RanSale == last.op = "save" /\ last.rid # NoId
RanDelete == last.op = "delete" /\ last.outcome \in {"ok", "restoreFailed"}

\* C1: no stock quantity is ever negative, and every update a receipt save issues
\* writes max(0, q - d) for the quantity q read and the sold quantity d.
C1_SaleClampsAtZero ==
    /\ \A id \in StockIds : stock[id].quantity >= 0
    /\ RanSale =>
          \A j \in 1..Len(last.updates) :
              LET u == last.updates[j]
                  q == last.pre[u.id].quantity
                  d == last.items[u.line].quantity
              IN /\ u.quantity = (IF q - d > 0 THEN q - d ELSE 0)
                 /\ (j \notin last.failed /\ LandedOn(u.id) = {j}) =>
                        stock[u.id].quantity = (IF q - d > 0 THEN q - d ELSE 0)

\* A save sold more than the stock item held and its update landed as 0.
C1_Witness ==
    /\ RanSale
    /\ \E j \in 1..Len(last.updates) :
          LET u == last.updates[j]
          IN /\ j \notin last.failed
             /\ last.pre[u.id].quantity > 0
             /\ last.pre[u.id].quantity < last.items[u.line].quantity
             /\ stock[u.id].quantity = 0

\* Every line of the deleted receipt carries the unit of the stock item it names.
AllUnitsMatch ==
    \A k \in 1..Len(last.items) :
        ExactMatch(last.items[k]) # 0 =>
            last.items[k].quantityUnit = ListRead[ExactMatch(last.items[k])].quantityUnit

\* C2: a receipt saved by handleSubmit and then deleted, with matching units and
\* no other stock write in between, leaves every stock quantity at its value
\* before the save.
C2_SaveDeleteRoundTrip ==
    (last.op = "delete" /\ last.outcome = "ok" /\ last.direct /\ AllUnitsMatch) =>
        \A id \in StockIds : stock[id].quantity = last.savePre[id].quantity

\* C3: a line whose quantityUnit differs from the unit of the stock item it
\* matches issues no update, on sale and on restore; a stock item matched only by
\* such lines keeps its document.
C3_UnitMismatchSkips ==
    (RanSale \/ RanDelete) =>
        \A k \in 1..Len(last.items) :
            LET line == last.items[k]
                i == ExactMatch(line)
            IN (i # 0 /\ line.quantityUnit # NoUnit
                      /\ line.quantityUnit # ListRead[i].quantityUnit) =>
                  /\ \A j \in 1..Len(last.updates) : last.updates[j].line # k
                  /\ (\A j \in 1..Len(last.updates) : last.updates[j].id # ListRead[i].id)
                        => stock[ListRead[i].id] = last.pre[ListRead[i].id]

\* A receipt with a kg line naming a stock item tracked in units was deleted:
\* another line was restored, the mismatched one was not.
C3_Witness ==
    /\ RanDelete
    /\ last.outcome = "ok"
    /\ last.updates # <<>>
    /\ \E k \in 1..Len(last.items) :
          LET i == ExactMatch(last.items[k])
          IN /\ i # 0
             /\ last.items[k].quantityUnit = "kg"
             /\ ListRead[i].quantityUnit = "units"
             /\ stock[ListRead[i].id] = last.pre[ListRead[i].id]

\* C8: on a save whose stock updates all landed, every line is matched to the first
\* stock item of the shop whose name equals the line's name ignoring case and,
\* when the units agree, that stock item is the one the line decrements.
C8_SaleMatchesIgnoringCase ==
    (RanSale /\ last.outcome = "saved") =>
        \A k \in 1..Len(last.items) :
            LET line == last.items[k]
                i == CaseMatch(line)
            IN (i # 0 /\ line.quantityUnit = ListRead[i].quantityUnit) =>
                  \E j \in 1..Len(last.updates) :
                      /\ last.updates[j].line = k
                      /\ last.updates[j].id = ListRead[i].id

\* C9 as stated: no submission is refused because a line asks for more than the
\* matching stock item holds.
C9_OverSellNotRejected == formError # "inventoryError:insufficientQuantity"

\* C9 amended: over-selling is refused against the stock list the form fetched on
\* mount, so a saved receipt has no line asking for more than that list holds for
\* the first item matching the line's name ignoring case; a line asking for more
\* than the store holds at the save is saved all the same, and its update is 0.
C9_OverSellRefusedOnFetchedList ==
    /\ \A r \in ReceiptIds :
          receipts[r].state = "live" =>
              /\ stockLoaded
              /\ \A k \in 1..Len(receipts[r].items) :
                    LET line == receipts[r].items[k]
                        i == FindIndex(stockItems,
                                       LAMBDA it : Lower(it.name) = Lower(line.name))
                    IN i # 0 /\ line.quantity <= stockItems[i].quantity
    /\ RanSale =>
          \A j \in 1..Len(last.updates) :
              LET u == last.updates[j]
              IN last.pre[u.id].quantity < last.items[u.line].quantity => u.quantity = 0

\* A receipt was saved with a line asking for more than the store held: the fetched
\* list still showed enough, and the stock item was set to 0.
C9_Witness ==
    /\ RanSale
    /\ receipts[last.rid].state = "live"
    /\ \E j \in 1..Len(last.updates) :
          LET u == last.updates[j]
          IN /\ j \notin last.failed
             /\ last.pre[u.id].quantity < last.items[u.line].quantity
             /\ stock[u.id].quantity = 0

\* C10: deleteReceipt deletes the receipt document before it restores stock and
\* does not undo the delete: when the restoration fails the call rejects, the
\* receipt stays deleted and every stock item no update landed on keeps its
\* quantity; when the receipt is not found or cannot be read or deleted, no
\* receipt is deleted and no stock changes.
C10_DeleteNotAtomic ==
    last.op = "delete" =>
        /\ last.outcome \in {"notFound", "readFailed", "deleteFailed"} =>
              /\ stock = last.pre
              /\ last.updates = <<>>
              /\ last.outcome = "notFound" <=> receipts[last.rid].state # "live"
        /\ last.outcome = "restoreFailed" =>
              /\ receipts[last.rid].state = "deleted"
              /\ \A id \in StockIds : LandedOn(id) = {} => stock[id] = last.pre[id]
        /\ last.outcome = "ok" => receipts[last.rid].state = "deleted"

\* A delete whose restoration failed on one stock item: the receipt is gone and
\* the item still holds the quantity the sale left.
C10_Witness ==
    /\ last.op = "delete"
    /\ last.outcome = "restoreFailed"
    /\ last.failed # {}
    /\ receipts[last.rid].state = "deleted"
    /\ \E j \in last.failed :
          /\ LandedOn(last.updates[j].id) = {}
          /\ stock[last.updates[j].id].quantity < last.updates[j].quantity

----------------------------------------------------------------------------
(* Properties of the login lockout *)

\* The lock recorded on doc (lockedUntil, lockDuration) has not expired at time t.
Unexpired(doc, t) ==
    /\ doc.lockedUntil # NoTime
    /\ doc.lockDuration # 0
    /\ doc.lockedUntil + doc.lockDuration > t

\* C4: counting the consecutive wrong-password submissions from
\* failedLoginAttempts = 0, the account is not locked after 1 to 4 of them, and
\* the 5th records the lock on the shop document: lockedUntil set at that
\* submission and lockDuration = 15.
C4_LockAtFifthFailure ==
    (shops.exists /\ lastLogin.signIn = "auth/wrong-password") =>
        /\ lastLogin.fails \in 1..4 =>
              /\ shops.accountStatus # "locked"
              /\ ~Unexpired(shops, now)
        /\ lastLogin.fails = 5 =>
              /\ shops.lockedUntil = lastLogin.at
              /\ shops.lockDuration = 15

\* C5: a submission for an account whose recorded lock has not expired makes no
\* sign-in call and leaves the account's shop document as it was, whether the
\* password given is right or wrong.
C5_LockedSubmissionRejected ==
    (/\ lastLogin.outcome # "none"
     /\ FoundByEmail(lastLogin.pre, lastLogin.email)
     /\ Unexpired(lastLogin.pre, lastLogin.at)) =>
        /\ lastLogin.signIn = "none"
        /\ lastLogin.outcome = "temporarilyLocked"
        /\ lastLogin.post = lastLogin.pre
        /\ shops = lastLogin.pre

\* The right password was submitted for the account while its lock had not
\* expired, and was turned away.
C5_Witness ==
    /\ lastLogin.outcome = "temporarilyLocked"
    /\ lastLogin.passwordOk
    /\ Unexpired(lastLogin.pre, lastLogin.at)
    /\ shops.failedLoginAttempts >= LockThreshold

\* C6: after a successful e-mail/password sign-in of an account whose shop
\* document exists, the document's failedLoginAttempts is 0.
C6_SuccessResetsAttempts ==
    (lastLogin.signIn = "ok" /\ shops.exists) => shops.failedLoginAttempts = 0

\* A sign-in succeeded on an account that had failed attempts counted.
C6_Witness ==
    /\ lastLogin.signIn = "ok"
    /\ lastLogin.pre.exists
    /\ lastLogin.pre.failedLoginAttempts > 0
    /\ shops.failedLoginAttempts = 0

\* C7: once a login has succeeded, or the recorded lock has expired, the account
\* is back in the active state: its status is not locked and no unexpired lock is
\* recorded on it.
C7_LockCycleReturnsToActive ==
    shops.exists =>
        /\ lastLogin.signIn = "ok" =>
              /\ shops.accountStatus = "active"
              /\ ~Unexpired(shops, now)
        /\ (shops.lockedUntil # NoTime /\ ~Unexpired(shops, now)) =>
              shops.accountStatus = "active"

----------------------------------------------------------------------------
(* Properties of error handling in the stock utilities *)

\* C11: getShopStock never rejects: for every shopId, given or not, and whether
\* or not the stock query fails, the promise resolves, and it resolves to the
\* empty list when no shopId is given or the query fails.
C11_GetShopStockNeverRejects ==
    \A shopId \in {NoId, "shopA", "shopB"}, queryFails \in BOOLEAN :
        LET r == GetShopStock(stock, shopId, queryFails)
        IN /\ ~r.rejected
           /\ (shopId = NoId \/ queryFails) => r.value = <<>>
           /\ (shopId # NoId /\ ~queryFails) => r.value = QueryStock(stock, shopId)

\* The fetch on mount failed for a shop that has stock: the form holds an empty
\* list and counts as loaded.
C11_Witness ==
    /\ stockLoaded
    /\ stockItems = <<>>
    /\ QueryStock(stock, CurrentUid) # <<>>

\* C14: when the update of one stock item fails during a save, updateStockQuantity
\* rejects and the quantities already written for the other lines' stock items
\* stay written: every stock item an update landed on holds the quantity of the
\* last update landed on it, every other stock item holds what it held before.
C14_PartialWritesKept ==
    (RanSale /\ last.failed # {}) =>
        /\ last.outcome = "stockFailed"
        /\ receipts[last.rid].state = "live"
        /\ \A id \in StockIds :
              IF LandedOn(id) = {} THEN stock[id] = last.pre[id]
              ELSE stock[id].quantity = last.updates[MaxOf(LandedOn(id))].quantity

\* A receipt with two lines on two stock items: one update failed and left its
\* item as it was, the other landed and lowered its item.
C14_Witness ==
    /\ RanSale
    /\ \E i \in last.failed, j \in 1..Len(last.updates) :
          /\ j \notin last.failed
          /\ last.updates[i].id # last.updates[j].id
          /\ stock[last.updates[i].id] = last.pre[last.updates[i].id]
          /\ stock[last.updates[j].id].quantity < last.pre[last.updates[j].id].quantity

----------------------------------------------------------------------------
(* Properties of receipts with several lines *)

\* The sum of the quantities of the lines whose updates, from the k-th on, were
\* issued on stock item id by the last save or delete.
RECURSIVE SumOfLines(_, _)
SumOfLines(id, k) ==
    IF k > Len(last.updates) THEN 0
    ELSE (IF last.updates[k].id = id
          THEN last.items[last.updates[k].line].quantity ELSE 0)
         + SumOfLines(id, k + 1)

\* C20: when the lines of one receipt name the same stock item, a save whose
\* updates all landed leaves the item at its quantity before minus the sum of
\* those lines' quantities, clamped at zero, and a delete whose updates all
\* landed leaves it at its quantity before plus that sum.
C20_DuplicateLinesSum ==
    /\ (RanSale /\ last.outcome = "saved") =>
          \A id \in StockIds :
              LandedOn(id) # {} =>
                  stock[id].quantity = Max(0, last.pre[id].quantity - SumOfLines(id, 1))
    /\ (RanDelete /\ last.outcome = "ok") =>
          \A id \in StockIds :
              LandedOn(id) # {} =>
                  stock[id].quantity = last.pre[id].quantity + SumOfLines(id, 1)

----------------------------------------------------------------------------
(* Further properties of the login lockout *)

\* C15: a login submission is refused as locked exactly when the document found
\* for the entered e-mail has lockedUntil and lockDuration set and lockedUntil +
\* lockDuration minutes is later than the time of the submission; in every other
\* case the sign-in is attempted.
C15_LockCheckIsClockComparison ==
    lastLogin.outcome # "none" =>
        /\ (lastLogin.signIn = "none") <=>
              (/\ FoundByEmail(lastLogin.pre, lastLogin.email)
               /\ lastLogin.pre.lockedUntil # NoTime
               /\ lastLogin.pre.lockDuration # 0
               /\ lastLogin.pre.lockedUntil + lastLogin.pre.lockDuration > lastLogin.at)
        /\ (lastLogin.outcome = "temporarilyLocked") <=> (lastLogin.signIn = "none")
        /\ lastLogin.signIn # "none" =>
              lastLogin.signIn = SignIn(lastLogin.email, lastLogin.passwordOk, TRUE)
              \/ lastLogin.signIn = SignIn(lastLogin.email, lastLogin.passwordOk, FALSE)

\* A submission made at the very minute the lock expired: the sign-in was attempted.
C15_Witness ==
    /\ FoundByEmail(lastLogin.pre, lastLogin.email)
    /\ lastLogin.pre.lockedUntil # NoTime
    /\ lastLogin.pre.lockedUntil + lastLogin.pre.lockDuration = lastLogin.at
    /\ lastLogin.signIn # "none"

\* C19: one submission with a wrong password, for an account whose document one
\* of the two lookups finds, raises the document's failedLoginAttempts by
\* exactly 1.
C19_OneIncrementPerFailure ==
    (/\ lastLogin.signIn = "auth/wrong-password"
     /\ \/ FoundByEmail(lastLogin.pre, lastLogin.email)
        \/ FoundByUserEmail(lastLogin.pre, lastLogin.email)) =>
        lastLogin.post.failedLoginAttempts = lastLogin.pre.failedLoginAttempts + 1

----------------------------------------------------------------------------
(* Properties of the AuthProvider *)

\* C18: whenever no user is signed in the shop profile is null, and a shop
\* profile that is not null came from the document of the current user.
C18_ShopDataBelongsToCurrentUser ==
    /\ currentUser = NoId => shopData = NoData
    /\ shopData # NoData => shopData.owner = currentUser

----------------------------------------------------------------------------
(* Properties of the NewReceipt form, step by step *)

\* The receipts created with transaction id x.
CreatedWith(x) == {k \in 1..Len(created) : created[k] = x}

\* C16: one form saves at most one receipt per transaction id: while a save is
\* under way (loading) or has succeeded (savedReceiptId set) no second chain is
\* started, so at most one chain is in flight, it belongs to a transaction id
\* with no receipt yet while it is saving, and no transaction id has two receipts.
C16_ReceiptCreatedOnce ==
    /\ \A k \in 1..Len(TxnIds) : Cardinality(CreatedWith(TxnIds[k])) <= 1
    /\ Cardinality(flights) <= 1
    /\ \A f \in flights :
          /\ loading
          /\ f.stage = "saving" => (CreatedWith(f.txn) = {} /\ f.txn = transactionId)
    /\ savedReceiptId # NoId => CreatedWith(transactionId) # {}

\* Two receipts were saved from the form, the second after resetForm, while the
\* stock update of the second is still in flight and the button is disabled.
C16_Witness ==
    /\ Len(created) = 2
    /\ created[1] # created[2]
    /\ loading
    /\ savedReceiptId # NoId
    /\ \E f \in flights : f.stage = "writing"

\* C17: a step in which saveReceipt rejects (a saving chain ends and no receipt
\* is created) changes no stock quantity, sets the error message, leaves
\* savedReceiptId null and loading false, and starts nothing: saveReceipt is not
\* called again and updateStockQuantity is not called.
C17_FailedSaveNotRetried ==
    [][\A f \in flights :
          (f.stage = "saving" /\ f \notin flights' /\ created' = created) =>
              /\ stock' = stock
              /\ formError' = "errorSavingReceipt"
              /\ savedReceiptId = NoId /\ savedReceiptId' = NoId
              /\ loading /\ ~loading'
              /\ flights' = flights \ {f}]_vars

\* The save of the form's only submission so far was rejected: the error shows,
\* nothing is in flight, no receipt exists and the stock is as the form loaded it.
C17_Witness ==
    /\ formError = "errorSavingReceipt"
    /\ created = <<>>
    /\ flights = {}
    /\ savedReceiptId = NoId
    /\ ~loading
    /\ stockLoaded /\ stockItems = QueryStock(stock, CurrentUid)

----------------------------------------------------------------------------
(* Properties of concurrent saves *)

\* The updates the finished call of tab t computed from the list it read.
UpdatesOf(t) == LineUpdates(calls[t].read, calls[t].items, 1, TRUE)

\* The quantity the finished call of tab t read for stock item id.
QuantityRead(t, id) ==
    calls[t].read[FindIndex(calls[t].read, LAMBDA it : it.id = id)].quantity

\* C12: when the updateStockQuantity calls of two tabs have both read the same
\* quantity q of a stock item and both written it, the item holds what the call
\* that wrote last computed on its own, max(0, q - d) for its sold quantity d:
\* the other call's decrement is not in it.
C12_LostUpdate ==
    \A t1 \in Tabs, t2 \in Tabs :
        (/\ t1 # t2
         /\ calls[t1].stage = "done" /\ calls[t2].stage = "done"
         /\ lastWriter = t2) =>
            \A i \in 1..Len(UpdatesOf(t1)), j \in 1..Len(UpdatesOf(t2)) :
                LET id == UpdatesOf(t2)[j].id
                    d2 == calls[t2].items[UpdatesOf(t2)[j].line].quantity
                IN (/\ UpdatesOf(t1)[i].id = id
                    /\ QuantityRead(t1, id) = QuantityRead(t2, id)) =>
                       stock[id].quantity = Max(0, QuantityRead(t2, id) - d2)

\* Two tabs each sold of the same stock item, both reading the quantity q before
\* either wrote: the item holds q minus one sale, more than q minus both.
C12_Witness ==
    \E t1 \in Tabs, t2 \in Tabs :
        /\ t1 # t2
        /\ calls[t1].stage = "done" /\ calls[t2].stage = "done"
        /\ lastWriter = t2
        /\ \E i \in 1..Len(UpdatesOf(t1)), j \in 1..Len(UpdatesOf(t2)) :
              LET id == UpdatesOf(t2)[j].id
                  q == QuantityRead(t2, id)
                  d1 == calls[t1].items[UpdatesOf(t1)[i].line].quantity
                  d2 == calls[t2].items[UpdatesOf(t2)[j].line].quantity
              IN /\ UpdatesOf(t1)[i].id = id
                 /\ QuantityRead(t1, id) = q
                 /\ stock[id].quantity = q - d2
                 /\ stock[id].quantity > Max(0, q - d1 - d2)

----------------------------------------------------------------------------
(* Properties of concurrent failed logins *)

\* C13: every write of failedLoginAttempts stores the value its own lookup read
\* plus 1, whatever the document holds by then: two submissions that read the
\* same n both store n + 1.
C13_CounterWrittenFromOwnRead ==
    [][\A t \in Tabs :
          (/\ chains[t].stage \in {"authWrite", "pageWrite"}
           /\ chains'[t].stage # chains[t].stage) =>
              shops'.failedLoginAttempts = chains[t].n + 1]_vars

\* More than 5 wrong-password submissions were made for an account whose
\* document every submission finds by e-mail, all of them are through, and the
\* account is not locked: the counter is below the threshold.
C13_Witness ==
    /\ attempts > LockThreshold
    /\ \A t \in Tabs : chains[t].stage = "idle"
    /\ shops.email = "a@x.com"
    /\ shops.failedLoginAttempts < LockThreshold
    /\ shops.accountStatus = "active"
    /\ shops.lockedUntil = NoTime

----------------------------------------------------------------------------
(* Properties of deleteReceipt under interleaving *)

\* C21: the quantities of a receipt are added back to stock at most once,
\* however the deleteReceipt calls for it interleave: at most one
\* restoreStockQuantity call writes stock, and no stock item ends above the
\* quantity it had before the receipt was saved.
C21_RestoredAtMostOnce ==
    /\ restores <= 1
    /\ \A id \in StockIds : stock[id].quantity <= MaxQty

----------------------------------------------------------------------------
(* Properties of the account states at login *)

\* C22: once accountStatus is 'locked', every login submission for the account
\* is refused, also with the correct password: no sign-in succeeds and none
\* reaches the dashboard while the document says locked.
C22_LockedStatusRefusesLogin ==
    (lastLogin.outcome # "none" /\ lastLogin.pre.accountStatus = "locked") =>
        /\ lastLogin.signIn # "ok"
        /\ lastLogin.outcome # "dashboard"

\* C23: after a lock has expired with no successful login since, a failed login
\* does not lock the account again at once: the first wrong password after the
\* expiry leaves no unexpired lock on the document and leaves accountStatus as
\* it was.
C23_FreshBudgetAfterExpiry ==
    (/\ lastLogin.signIn = "auth/wrong-password"
     /\ lastLogin.pre.lockedUntil # NoTime
     /\ ~Unexpired(lastLogin.pre, lastLogin.at)
     /\ lastLogin.pre.failedLoginAttempts >= LockThreshold) =>
        /\ ~Unexpired(lastLogin.post, lastLogin.at)
        /\ lastLogin.post.accountStatus = lastLogin.pre.accountStatus

\* C24: an account whose shop document has status pending, frozen or rejected
\* is kept out: no submission for it reaches the dashboard, and none leaves a
\* signed-in session behind.
C24_UnapprovedKeptOut ==
    (shops.exists /\ shops.status \in {"pending", "frozen", "rejected"}) =>
        /\ lastLogin.outcome # "dashboard"
        /\ session = NoId

----------------------------------------------------------------------------
(* Frame of the stock adjustment *)

\* A line naming an item the shop does not stock.
UnstockedLine == [name |-> "Pear", quantity |-> 1, quantityUnit |-> NoUnit]

\* C25: updateStockQuantity and restoreStockQuantity write only the quantity of
\* stock items of the receipt's shop whose name equals the name of some line:
\* after a save or a delete every other stock item, and every other field, is as
\* it was before, and a line with no matching stock item of the shop issues no
\* update.
C25_OnlyNamedItemsOfShopWritten ==
    /\ (RanSale \/ RanDelete) =>
          \A id \in StockIds :
              /\ [stock[id] EXCEPT !.quantity = last.pre[id].quantity] = last.pre[id]
              /\ stock[id] # last.pre[id] =>
                    /\ last.pre[id].shopId = CurrentUid
                    /\ \E k \in 1..Len(last.items) : last.items[k].name = last.pre[id].name
    /\ \A shopId \in {"shopA", "shopB"}, sale \in BOOLEAN :
          LET list == QueryStock(stock, shopId)
          IN /\ LineUpdates(list, <<UnstockedLine>>, 1, sale) = <<>>
             /\ \A k \in 1..Len(list) :
                   LET updates == LineUpdates(list, <<UnstockedLine,
                                      [name |-> list[k].name, quantity |-> 1,
                                       quantityUnit |-> NoUnit]>>, 1, sale)
                   IN \A j \in 1..Len(updates) :
                         /\ updates[j].line = 2
                         /\ stock[updates[j].id].shopId = shopId
                         /\ stock[updates[j].id].name = list[k].name

\* A save of one Apple row lowered s1 and left alone both the shop's other item,
\* named apple, and the Apple of the other shop.
C25_Witness ==
    /\ RanSale
    /\ last.outcome = "saved"
    /\ Len(last.items) = 1
    /\ last.items[1].name = "Apple"
    /\ stock["s1"].quantity < last.pre["s1"].quantity
    /\ stock["s2"] = last.pre["s2"]
    /\ stock["s3"] = last.pre["s3"]

----------------------------------------------------------------------------
(* Properties of ViewReceipt *)

\* C26: ViewReceipt shows a receipt only to its owner: whenever the receipt
\* state is set, the receipt held has the shopId of the signed-in user.
C26_ReceiptOnlyForOwner ==
    viewer.receipt # NoId => ShopIdOf(viewer.receipt) = viewer.user

----------------------------------------------------------------------------
(* Properties of the validation of handleSubmit *)

\* The error keys of the cashier and row checks of handleSubmit.
ValidationErrors == {"cashierRequired", "itemDetailsRequired", "invalidPrices",
                     "invalidQuantities"}

\* The receipt data of a promise chain: a cashier name, and rows with a name, a
\* price above 0 and a quantity above 0 that is a whole number of at least 1
\* unless the row is sold by the kg.
WellFormed(f) ==
    /\ f.cashierName # ""
    /\ f.cashierName # " "
    /\ \A k \in 1..Len(f.items) :
          LET line == f.items[k]
          IN /\ line.name # ""
             /\ line.price # Empty /\ line.price > 0
             /\ line.quantity # Empty /\ (line.quantity > 0 \/ line.half)
             /\ line.quantityUnit # "kg" => (line.quantity >= 1 /\ ~line.half)

\* C27: every receipt handleSubmit hands to saveReceipt is well formed (a cashier
\* name, and on every row a name, a price > 0, a quantity > 0, whole and >= 1
\* unless the unit is kg), and a submission turned away by these checks starts
\* no save, creates no receipt and changes no stock.
C27_SavedReceiptsWellFormed ==
    [][/\ \A f \in flights' : WellFormed(f)
       /\ (formError' \in ValidationErrors /\ formError' # formError) =>
             /\ flights' = flights
             /\ created' = created
             /\ savedReceiptId' = savedReceiptId
             /\ stock' = stock
             /\ ~loading']_vars

\* A receipt was saved, the form was reset, and the next submission was turned
\* away for its quantity.
C27_Witness ==
    /\ Len(created) = 1
    /\ flights = {}
    /\ transactionId = TxnIds[2]
    /\ formError = "invalidQuantities"
    /\ ~loading

====
